---- MODULE Spec2Model ----
(***************************************************************************)
(* Model of src/src/modules/threads.ts (class Threads): a client binding   *)
(* for the daemon's "threads" REST resource.  Each method is an async      *)
(* function; a call runs synchronously up to its next await, where it      *)
(* suspends until the awaited promise settles.  The daemon handles one     *)
(* request at a time.  The HTTP transport base (core/api) and the Schemas  *)
(* module are collaborators whose code is not in threads.ts.               *)
(***************************************************************************)
EXTENDS Naturals, Sequences, FiniteSets

\* ------------------------------------------------------------------ bounds
MaxThreads == 2       \* threads the daemon holds initially (at most)
MaxStored == 3        \* threads the daemon stores before it refuses a new one

\* The client calls, which may run concurrently.
CallIds == {1, 2}

\* ------------------------------------------------------------------ values
Undefined == "<undefined>"
Names == {"chat", "work"}
Keys == {"k1", "k2"}
IdOf(n) == CASE n = 1 -> "t1" [] n = 2 -> "t2" [] n = 3 -> "t3" [] n = 4 -> "t4"
             [] n = 5 -> "t5" [] n = 6 -> "t6" [] n = 7 -> "t7" [] OTHER -> "t8"
ThreadArgs == {"t1"}

Thread(id, name, key) == [id |-> id, name |-> name, key |-> key]
Infos == {Thread("t1", "chat", k) : k \in Keys}

\* The schema argument of add: string | object | undefined.
SchemaNone == [t |-> "undefined", v |-> ""]
SchemaStr(s) == [t |-> "string", v |-> s]
SchemaObj(o) == [t |-> "object", v |-> o]
DefaultNames == {"media"}
SchemaArgs == {SchemaNone, SchemaStr(""), SchemaStr("media"), SchemaStr("QmX"),
               SchemaObj("o1")}

\* The arguments add is called with: <<name, schema, key>>.
AddArgs == {<<"chat", s, Undefined>> : s \in SchemaArgs} \cup {<<"chat", SchemaNone, "k1">>}

NoOpts == << >>
NoData == << >>
Request(method, path, args, opts, data) ==
  [method |-> method, path |-> path, args |-> args, opts |-> opts, data |-> data]
NoRequest == Request("", << >>, << >>, NoOpts, NoData)

\* ------------------------------------------------------------------ state
VARIABLES
  threads,   \* the daemon's thread list, in the daemon's order
  nextId,    \* the daemon's counter for the id of the next thread it creates
  op,        \* op[c]: the method call c runs ("" before it is invoked)
  arg,       \* arg[c]: the arguments of call c
  pc,        \* pc[c]: where call c is suspended
  net,       \* net[c]: the HTTP exchange call c has started last
  local,     \* local[c]: the locals of call c: targetSchema (add), threads (the
             \* list getByKey and getByName parsed, wrapped in a sequence once
             \* it is set), thread (what removeByKey got from getByKey)
  log,       \* log[c]: what call c has invoked and sent so far, in order
  result     \* result[c]: what the promise of call c settled with

vars == <<threads, nextId, op, arg, pc, net, local, log, result>>

NoArg == [thread |-> "", name |-> "", key |-> "", schema |-> SchemaNone,
          info |-> << >>]
NoNet == [st |-> "none", req |-> NoRequest, status |-> 0, items |-> << >>]
NoLocal == [targetSchema |-> Undefined, threads |-> << >>, thread |-> << >>]
Pending == [k |-> "pending", b |-> FALSE, items |-> << >>]
Settled(k, b, items) == [k |-> k, b |-> b, items |-> items]

\* ------------------------------------------------------------- pure parts
\* A filter that stops at its first match.
FilterFirstOnly(items, f, v) ==
  LET m == SelectSeq(items, LAMBDA t : t[f] = v)
  IN IF m = << >> THEN << >> ELSE <<m[1]>>

RECURSIVE Filter(_, _, _)
\* Array.prototype.filter with the predicate "field f equals v".
Filter(items, f, v) ==
  IF items = << >> THEN << >>
  ELSE IF Head(items)[f] = v THEN <<Head(items)>> \o Filter(Tail(items), f, v)
       ELSE Filter(Tail(items), f, v)

\* A find that ignores its predicate.
FindAny(items, f, v) == IF items = << >> THEN << >> ELSE <<Head(items)>>

\* A find that scans from the end.
FindLast(items, f, v) ==
  LET m == SelectSeq(items, LAMBDA t : t[f] = v)
  IN IF m = << >> THEN << >> ELSE <<m[Len(m)]>>

RECURSIVE Find(_, _, _)
\* Array.prototype.find with the predicate "field f equals v": a sequence of
\* one item, or the empty sequence for undefined.
Find(items, f, v) ==
  IF items = << >> THEN << >>
  ELSE IF Head(items)[f] = v THEN <<Head(items)>>
       ELSE Find(Tail(items), f, v)

\* `x || ''` on a string-or-undefined x (threads.ts lines 74, 75).
OrEmpty(x) == IF x = Undefined \/ x = "" THEN "" ELSE x

\* `x || d` on a string-or-undefined x (threads.ts lines 76, 77).
OrDefault(x, d) == IF x = Undefined \/ x = "" THEN d ELSE x

RECURSIVE Join(_)
\* Array.prototype.join(','): the pieces of the joined string, in order.
Join(list) ==
  IF list = << >> THEN << >>
  ELSE IF Len(list) = 1 THEN <<Head(list)>>
       ELSE <<Head(list), ",">> \o Join(Tail(list))

\* Which branch of add's schema resolution runs (threads.ts lines 55 and 58):
\* `schema && typeof schema === 'object'`, `schema && typeof schema === 'string'`.
SchemaBranch(schema) ==
  IF schema.t = "object" THEN "object"
  ELSE IF schema.t = "string" /\ schema.v # "" THEN "string"
  ELSE "none"

\* An add that forgets the schema it resolved.
PostRequestNoSchema(name, targetSchema, key, type, sharing, whitelist) ==
  Request("POST", <<"threads">>, <<name>>,
          <<[schema |-> "",
             key |-> OrEmpty(key),
             type |-> OrDefault(type, "private"),
             sharing |-> OrDefault(sharing, "not_shared"),
             whitelist |-> Join(whitelist)]>>,
          NoData)

\* The request of add (threads.ts lines 70-80).
PostRequest(name, targetSchema, key, type, sharing, whitelist) ==
  Request("POST", <<"threads">>, <<name>>,
          <<[schema |-> OrEmpty(targetSchema),
             key |-> OrEmpty(key),
             type |-> OrDefault(type, "private"),
             sharing |-> OrDefault(sharing, "not_shared"),
             whitelist |-> Join(whitelist)]>>,
          NoData)

\* The request of addOrUpdate (threads.ts line 91).
AddOrUpdateRequest(thread, info) ==
  Request("PUT", <<"threads", thread>>, << >>, NoOpts, <<info>>)

\* The request of get (threads.ts line 101).
GetRequest(thread) == Request("GET", <<"threads", thread>>, << >>, NoOpts, NoData)

\* The request of getByKey, getByName and list (threads.ts lines 113, 125, 136).
ListRequest == Request("GET", <<"threads">>, << >>, NoOpts, NoData)

\* The request of remove and of removeByKey (threads.ts lines 147, 162).
DeleteRequest(thread) ==
  Request("DELETE", <<"threads", thread>>, << >>, NoOpts, NoData)

\* A rename that passes the name on as the request's argument.
RenameRequestWithName(thread, name) ==
  Request("PUT", <<"threads", thread, "name">>, <<name>>, NoOpts, NoData)

\* The request of rename (threads.ts line 175).
RenameRequest(thread, name) ==
  Request("PUT", <<"threads", thread, "name">>, << >>, NoOpts, NoData)

\* The request of peers (threads.ts line 186): `thread || 'default'`.
PeersRequest(thread) ==
  Request("GET", <<"threads", OrDefault(thread, "default"), "peers">>, << >>,
          NoOpts, NoData)

\* A success test that accepts every 2xx status.
Is2xx(status) == status >= 200 /\ status <= 299

\* `response.status === 204` (threads.ts lines 148, 163, 176).
Is204(status) == status = 204

\* `if (!thread)` on the result of getByKey (threads.ts line 159).
NotFound(thread) == thread = << >>

\* A test that never takes the default-schema branch.
KnownNever(known) == FALSE

\* `if (known)` on the result of defaultByName (threads.ts line 61).
Known(known) == known # << >>

\* ------------------------------------------------------- collaborators
\* The transport base: a response whose status is not 2xx is not returned to
\* the caller, the promise of sendGet/sendPost/sendPut/sendDelete rejects.
Rejects(status) == status < 200 \/ status > 299

\* Schemas.defaultByName: the default schema of that name, or undefined.
DefaultByName(s) == IF s \in DefaultNames THEN <<"default:media">> ELSE << >>

\* Schemas.add: the content hash of the schema it stored.
HashOf(o) == CASE o = "o1" -> "Qm1" [] o = "default:media" -> "QmMedia"
               [] OTHER -> "Qm0"

\* ------------------------------------------------------------- the daemon
HasId(list, id) == \E i \in 1..Len(list) : list[i].id = id

RECURSIVE Without(_, _)
Without(list, id) ==
  IF list = << >> THEN << >>
  ELSE IF Head(list).id = id THEN Without(Tail(list), id)
       ELSE <<Head(list)>> \o Without(Tail(list), id)

\* The thread of that id in the list, as a sequence of one thread.
ById(list, id) == SelectSeq(list, LAMBDA t : t.id = id)

Replaced(list, id, t) == [i \in 1..Len(list) |-> IF list[i].id = id THEN t ELSE list[i]]

Answer(list, next, status, items) ==
  [threads |-> list, nextId |-> next, status |-> status, items |-> items]

\* What the daemon may do with a request: the thread list and id counter it
\* ends with, and the status and body it answers.
Outcomes(req) ==
  LET path == req.path
      fail == {Answer(threads, nextId, 500, << >>)}
      id == IF Len(path) >= 2 THEN path[2] ELSE ""
      missing == {Answer(threads, nextId, 404, << >>)}
  IN
  CASE req.method = "GET" /\ Len(path) = 1 ->
         fail \cup {Answer(threads, nextId, 200, threads)}
    [] req.method = "GET" /\ Len(path) = 2 ->
         fail \cup (IF HasId(threads, id)
                    THEN {Answer(threads, nextId, 200, ById(threads, id))}
                    ELSE missing)
    [] req.method = "GET" /\ Len(path) = 3 ->
         fail \cup (IF HasId(threads, id) \/ id = "default"
                    THEN {Answer(threads, nextId, 200, << >>)}
                    ELSE missing)
    [] req.method = "POST" ->
         fail \cup (IF Len(threads) < MaxStored
                    THEN LET t == Thread(IdOf(nextId), req.args[1], req.opts[1].key)
                         IN {Answer(Append(threads, t), nextId + 1, 201, <<t>>)}
                    ELSE {})
    [] req.method = "PUT" /\ Len(path) = 2 ->
         LET t == [req.data[1] EXCEPT !.id = id]
         IN fail \cup (IF HasId(threads, id)
                       THEN {Answer(Replaced(threads, id, t), nextId, 204, << >>)}
                       ELSE IF Len(threads) < MaxStored
                            THEN {Answer(Append(threads, t), nextId, 204, << >>)}
                            ELSE {})
    [] req.method = "PUT" /\ Len(path) = 3 ->
         fail \cup (IF HasId(threads, id)
                    THEN LET old == ById(threads, id)[1]
                             t == IF req.args = << >> THEN old
                                  ELSE [old EXCEPT !.name = req.args[1]]
                         IN {Answer(Replaced(threads, id, t), nextId, 204, << >>)}
                    ELSE missing)
    [] req.method = "DELETE" ->
         fail \cup (IF HasId(threads, id)
                    THEN {Answer(Without(threads, id), nextId, s, << >>) : s \in {200, 204}}
                    ELSE missing)
    [] OTHER -> fail

\* ------------------------------------------------------------ bookkeeping
HttpEv(req) == [ev |-> "http", req |-> req, v |-> ""]
CallEv(name, v) == [ev |-> name, req |-> NoRequest, v |-> v]

\* Call c hands req to the transport (sendGet, sendPost, sendPut, sendDelete).
Issue(c, req) ==
  /\ net' = [net EXCEPT ![c] = [NoNet EXCEPT !.st = "sent", !.req = req]]
  /\ log' = [log EXCEPT ![c] = Append(@, HttpEv(req))]

\* Call c is resumed with the response to its request.
Answered(c, o, at) == pc[c] = at /\ op[c] = o /\ net[c].st = "answered"

Received(c) == net' = [net EXCEPT ![c].st = "received"]

Return(c, r) ==
  /\ pc' = [pc EXCEPT ![c] = "done"]
  /\ result' = [result EXCEPT ![c] = r]

Throw(c) ==
  /\ pc' = [pc EXCEPT ![c] = "failed"]
  /\ result' = [result EXCEPT ![c] = Settled("error", FALSE, << >>)]

Invoke(c, o, a) ==
  /\ pc[c] = "idle"
  /\ \A d \in CallIds : d < c => pc[d] # "idle"
  /\ op' = [op EXCEPT ![c] = o]
  /\ arg' = [arg EXCEPT ![c] = a]

\* ------------------------------------------------------------------ Init
RECURSIVE ListsOf(_)
\* The thread lists of length n the daemon may hold: ids t1..tn in order, any
\* name and key each.
ListsOf(n) ==
  IF n = 0 THEN {<< >>}
  ELSE {Append(l, Thread(IdOf(n), nm, k)) : l \in ListsOf(n - 1), nm \in Names, k \in Keys}

Init ==
  /\ \E n \in 0..MaxThreads : threads \in ListsOf(n) /\ nextId = n + 1
  /\ op = [c \in CallIds |-> ""]
  /\ arg = [c \in CallIds |-> NoArg]
  /\ pc = [c \in CallIds |-> "idle"]
  /\ net = [c \in CallIds |-> NoNet]
  /\ local = [c \in CallIds |-> NoLocal]
  /\ log = [c \in CallIds |-> << >>]
  /\ result = [c \in CallIds |-> Pending]

\* ------------------------------------------------------------------- add
\* add up to its first await (threads.ts lines 52-60, 70).
Add(c, name, schema, key) ==
  /\ Invoke(c, "add", [NoArg EXCEPT !.name = name, !.schema = schema, !.key = key])
  /\ CASE SchemaBranch(schema) = "object" ->
            /\ log' = [log EXCEPT ![c] = Append(@, CallEv("schemas.add", schema.v))]
            /\ pc' = [pc EXCEPT ![c] = "schemaAdd"]
            /\ UNCHANGED net
       [] SchemaBranch(schema) = "string" ->
            /\ log' = [log EXCEPT ![c] = Append(@, CallEv("schemas.defaultByName", schema.v))]
            /\ pc' = [pc EXCEPT ![c] = "defaultByName"]
            /\ UNCHANGED net
       [] OTHER ->
            /\ Issue(c, PostRequest(name, Undefined, key, Undefined, Undefined, << >>))
            /\ pc' = [pc EXCEPT ![c] = "wait"]
  /\ UNCHANGED <<threads, nextId, local, result>>

\* schemas.add(schema) settles: targetSchema = fileIndex.hash, then the POST
\* (threads.ts lines 56-57, 70).
AddSchemaAdded(c) ==
  /\ pc[c] = "schemaAdd"
  /\ \/ /\ Throw(c)
        /\ UNCHANGED <<net, log, local>>
     \/ LET h == HashOf(arg[c].schema.v)
        IN /\ local' = [local EXCEPT ![c].targetSchema = h]
           /\ net' = [net EXCEPT ![c] = [NoNet EXCEPT !.st = "sent",
                   !.req = PostRequest(arg[c].name, h, arg[c].key, Undefined, Undefined, << >>)]]
           /\ log' = [log EXCEPT ![c] = @ \o <<CallEv("schemas.add.ret", h),
                   HttpEv(PostRequest(arg[c].name, h, arg[c].key, Undefined, Undefined, << >>))>>]
           /\ pc' = [pc EXCEPT ![c] = "wait"]
           /\ UNCHANGED result
  /\ UNCHANGED <<threads, nextId, op, arg>>

\* schemas.defaultByName(schema) settles (threads.ts lines 60-68, 70).
AddDefaultByName(c) ==
  /\ pc[c] = "defaultByName"
  /\ \/ /\ Throw(c)
        /\ UNCHANGED <<net, log, local>>
     \/ LET known == DefaultByName(arg[c].schema.v)
            ret == CallEv("schemas.defaultByName.ret",
                          IF known = << >> THEN Undefined ELSE known[1])
            post == PostRequest(arg[c].name, arg[c].schema.v, arg[c].key,
                                Undefined, Undefined, << >>)
        IN IF Known(known)
           THEN /\ log' = [log EXCEPT ![c] = @ \o <<ret, CallEv("schemas.add", known[1])>>]
                /\ pc' = [pc EXCEPT ![c] = "knownAdd"]
                /\ UNCHANGED <<net, local, result>>
           ELSE /\ local' = [local EXCEPT ![c].targetSchema = arg[c].schema.v]
                /\ net' = [net EXCEPT ![c] = [NoNet EXCEPT !.st = "sent", !.req = post]]
                /\ log' = [log EXCEPT ![c] = @ \o <<ret, HttpEv(post)>>]
                /\ pc' = [pc EXCEPT ![c] = "wait"]
                /\ UNCHANGED result
  /\ UNCHANGED <<threads, nextId, op, arg>>

\* schemas.add(known) settles: targetSchema = added.hash, then the POST
\* (threads.ts lines 63-64, 70).
AddKnownAdded(c) ==
  /\ pc[c] = "knownAdd"
  /\ \/ /\ Throw(c)
        /\ UNCHANGED <<net, log, local>>
     \/ LET h == HashOf(DefaultByName(arg[c].schema.v)[1])
        IN /\ local' = [local EXCEPT ![c].targetSchema = h]
           /\ net' = [net EXCEPT ![c] = [NoNet EXCEPT !.st = "sent",
                   !.req = PostRequest(arg[c].name, h, arg[c].key, Undefined, Undefined, << >>)]]
           /\ log' = [log EXCEPT ![c] = @ \o <<CallEv("schemas.add.ret", h),
                   HttpEv(PostRequest(arg[c].name, h, arg[c].key, Undefined, Undefined, << >>))>>]
           /\ pc' = [pc EXCEPT ![c] = "wait"]
           /\ UNCHANGED result
  /\ UNCHANGED <<threads, nextId, op, arg>>

\* The POST settles: response.json() (threads.ts lines 70, 81).
AddReturn(c) ==
  /\ Answered(c, "add", "wait")
  /\ Received(c)
  /\ IF Rejects(net[c].status) THEN Throw(c)
     ELSE Return(c, Settled("thread", FALSE, net[c].items))
  /\ UNCHANGED <<threads, nextId, op, arg, local, log>>

\* ----------------------------------------------------------- addOrUpdate
\* An addOrUpdate that awaits its PUT.
AddOrUpdateAwaited(c, thread, info) ==
  /\ Invoke(c, "addOrUpdate", [NoArg EXCEPT !.thread = thread, !.info = <<info>>])
  /\ Issue(c, AddOrUpdateRequest(thread, info))
  /\ pc' = [pc EXCEPT ![c] = "wait"]
  /\ UNCHANGED <<threads, nextId, local, result>>

\* addOrUpdate starts the PUT and returns: the promise of sendPut is neither
\* awaited nor returned (threads.ts lines 90-92).
AddOrUpdate(c, thread, info) ==
  /\ Invoke(c, "addOrUpdate", [NoArg EXCEPT !.thread = thread, !.info = <<info>>])
  /\ Issue(c, AddOrUpdateRequest(thread, info))
  /\ Return(c, Settled("void", FALSE, << >>))
  /\ UNCHANGED <<threads, nextId, local>>

\* ------------------------------------------------------------------- get
Get(c, thread) ==
  /\ Invoke(c, "get", [NoArg EXCEPT !.thread = thread])
  /\ Issue(c, GetRequest(thread))
  /\ pc' = [pc EXCEPT ![c] = "wait"]
  /\ UNCHANGED <<threads, nextId, local, result>>

\* threads.ts lines 101-102.
GetReturn(c) ==
  /\ Answered(c, "get", "wait")
  /\ Received(c)
  /\ IF Rejects(net[c].status) THEN Throw(c)
     ELSE Return(c, Settled("thread", FALSE, net[c].items))
  /\ UNCHANGED <<threads, nextId, op, arg, local, log>>

\* -------------------------------------------------------------- getByKey
GetByKey(c, key) ==
  /\ Invoke(c, "getByKey", [NoArg EXCEPT !.key = key])
  /\ Issue(c, ListRequest)
  /\ pc' = [pc EXCEPT ![c] = "wait"]
  /\ UNCHANGED <<threads, nextId, local, result>>

\* threads.ts lines 113-115.
GetByKeyReturn(c) ==
  /\ Answered(c, "getByKey", "wait")
  /\ Received(c)
  /\ IF Rejects(net[c].status)
     THEN Throw(c) /\ UNCHANGED local
     ELSE /\ local' = [local EXCEPT ![c].threads = <<net[c].items>>]
          /\ Return(c, Settled("found", FALSE, Find(net[c].items, "key", arg[c].key)))
  /\ UNCHANGED <<threads, nextId, op, arg, log>>

\* ------------------------------------------------------------- getByName
GetByName(c, name) ==
  /\ Invoke(c, "getByName", [NoArg EXCEPT !.name = name])
  /\ Issue(c, ListRequest)
  /\ pc' = [pc EXCEPT ![c] = "wait"]
  /\ UNCHANGED <<threads, nextId, local, result>>

\* threads.ts lines 125-127.
GetByNameReturn(c) ==
  /\ Answered(c, "getByName", "wait")
  /\ Received(c)
  /\ IF Rejects(net[c].status)
     THEN Throw(c) /\ UNCHANGED local
     ELSE /\ local' = [local EXCEPT ![c].threads = <<net[c].items>>]
          /\ Return(c, Settled("threads", FALSE, Filter(net[c].items, "name", arg[c].name)))
  /\ UNCHANGED <<threads, nextId, op, arg, log>>

\* ------------------------------------------------------------------ list
List(c) ==
  /\ Invoke(c, "list", NoArg)
  /\ Issue(c, ListRequest)
  /\ pc' = [pc EXCEPT ![c] = "wait"]
  /\ UNCHANGED <<threads, nextId, local, result>>

\* threads.ts lines 136-137.
ListReturn(c) ==
  /\ Answered(c, "list", "wait")
  /\ Received(c)
  /\ IF Rejects(net[c].status) THEN Throw(c)
     ELSE Return(c, Settled("threads", FALSE, net[c].items))
  /\ UNCHANGED <<threads, nextId, op, arg, local, log>>

\* ---------------------------------------------------------------- remove
Remove(c, thread) ==
  /\ Invoke(c, "remove", [NoArg EXCEPT !.thread = thread])
  /\ Issue(c, DeleteRequest(thread))
  /\ pc' = [pc EXCEPT ![c] = "wait"]
  /\ UNCHANGED <<threads, nextId, local, result>>

\* threads.ts lines 147-148.
RemoveReturn(c) ==
  /\ Answered(c, "remove", "wait")
  /\ Received(c)
  /\ IF Rejects(net[c].status) THEN Throw(c)
     ELSE Return(c, Settled("bool", Is204(net[c].status), << >>))
  /\ UNCHANGED <<threads, nextId, op, arg, local, log>>

\* ----------------------------------------------------------- removeByKey
\* removeByKey calls getByKey, which sends GET threads (threads.ts lines 158, 113).
RemoveByKey(c, key) ==
  /\ Invoke(c, "removeByKey", [NoArg EXCEPT !.key = key])
  /\ Issue(c, ListRequest)
  /\ pc' = [pc EXCEPT ![c] = "wait"]
  /\ UNCHANGED <<threads, nextId, local, result>>

\* A removeByKey that reports what getByKey found and sends no DELETE.
RemoveByKeyFoundNoDelete(c) ==
  /\ Answered(c, "removeByKey", "wait")
  /\ Received(c)
  /\ IF Rejects(net[c].status)
     THEN Throw(c) /\ UNCHANGED local
     ELSE LET thread == Find(net[c].items, "key", arg[c].key)
          IN /\ local' = [local EXCEPT ![c].threads = <<net[c].items>>, ![c].thread = thread]
             /\ Return(c, Settled("bool", ~NotFound(thread), << >>))
  /\ UNCHANGED <<threads, nextId, op, arg, log>>

\* getByKey settles; without a thread the call returns false, with one it
\* sends the DELETE (threads.ts lines 113-115, 158-162).
RemoveByKeyFound(c) ==
  /\ Answered(c, "removeByKey", "wait")
  /\ IF Rejects(net[c].status)
     THEN /\ Received(c)
          /\ Throw(c)
          /\ UNCHANGED <<local, log>>
     ELSE LET thread == Find(net[c].items, "key", arg[c].key)
          IN /\ local' = [local EXCEPT ![c].threads = <<net[c].items>>, ![c].thread = thread]
             /\ IF NotFound(thread)
                THEN /\ Received(c)
                     /\ Return(c, Settled("bool", FALSE, << >>))
                     /\ UNCHANGED log
                ELSE /\ Issue(c, DeleteRequest(thread[1].id))
                     /\ pc' = [pc EXCEPT ![c] = "wait2"]
                     /\ UNCHANGED result
  /\ UNCHANGED <<threads, nextId, op, arg>>

\* The DELETE settles (threads.ts lines 162-163).
RemoveByKeyReturn(c) ==
  /\ Answered(c, "removeByKey", "wait2")
  /\ Received(c)
  /\ IF Rejects(net[c].status) THEN Throw(c)
     ELSE Return(c, Settled("bool", Is204(net[c].status), << >>))
  /\ UNCHANGED <<threads, nextId, op, arg, local, log>>

\* ---------------------------------------------------------------- rename
Rename(c, thread, name) ==
  /\ Invoke(c, "rename", [NoArg EXCEPT !.thread = thread, !.name = name])
  /\ Issue(c, RenameRequest(thread, name))
  /\ pc' = [pc EXCEPT ![c] = "wait"]
  /\ UNCHANGED <<threads, nextId, local, result>>

\* threads.ts lines 175-176.
RenameReturn(c) ==
  /\ Answered(c, "rename", "wait")
  /\ Received(c)
  /\ IF Rejects(net[c].status) THEN Throw(c)
     ELSE Return(c, Settled("bool", Is204(net[c].status), << >>))
  /\ UNCHANGED <<threads, nextId, op, arg, local, log>>

\* ----------------------------------------------------------------- peers
Peers(c, thread) ==
  /\ Invoke(c, "peers", [NoArg EXCEPT !.thread = thread])
  /\ Issue(c, PeersRequest(thread))
  /\ pc' = [pc EXCEPT ![c] = "wait"]
  /\ UNCHANGED <<threads, nextId, local, result>>

\* threads.ts lines 186-187.
PeersReturn(c) ==
  /\ Answered(c, "peers", "wait")
  /\ Received(c)
  /\ IF Rejects(net[c].status) THEN Throw(c)
     ELSE Return(c, Settled("contacts", FALSE, net[c].items))
  /\ UNCHANGED <<threads, nextId, op, arg, local, log>>

\* ---------------------------------------------------------------- daemon
\* The daemon handles the request of call c and answers it.
Daemon(c) ==
  /\ net[c].st = "sent"
  /\ \E o \in Outcomes(net[c].req) :
       /\ threads' = o.threads
       /\ nextId' = o.nextId
       /\ net' = [net EXCEPT ![c].st = "answered", ![c].status = o.status,
                             ![c].items = o.items]
  /\ UNCHANGED <<op, arg, pc, local, log, result>>

Next ==
  \E c \in CallIds :
    \/ \E a \in AddArgs : Add(c, a[1], a[2], a[3])
    \/ AddSchemaAdded(c)
    \/ AddDefaultByName(c)
    \/ AddKnownAdded(c)
    \/ AddReturn(c)
    \/ \E thread \in ThreadArgs, info \in Infos : AddOrUpdate(c, thread, info)
    \/ \E thread \in ThreadArgs : Get(c, thread)
    \/ GetReturn(c)
    \/ \E key \in Keys : GetByKey(c, key)
    \/ GetByKeyReturn(c)
    \/ \E name \in Names : GetByName(c, name)
    \/ GetByNameReturn(c)
    \/ List(c)
    \/ ListReturn(c)
    \/ \E thread \in ThreadArgs : Remove(c, thread)
    \/ RemoveReturn(c)
    \/ \E key \in Keys : RemoveByKey(c, key)
    \/ RemoveByKeyFound(c)
    \/ RemoveByKeyReturn(c)
    \/ \E thread \in ThreadArgs, name \in Names : Rename(c, thread, name)
    \/ RenameReturn(c)
    \/ \E thread \in ThreadArgs \cup {""} : Peers(c, thread)
    \/ PeersReturn(c)
    \/ Daemon(c)

Spec == Init /\ [][Next]_vars

\* ---------------------------------------------------------------- claims
Finished(c) == pc[c] \in {"done", "failed"}
HttpCount(c) == Len(SelectSeq(log[c], LAMBDA e : e.ev = "http"))
EvCount(c, name) == Len(SelectSeq(log[c], LAMBDA e : e.ev = name))
Bool(b) == Settled("bool", b, << >>)

\* Call c is a remove, rename or removeByKey that was resumed with the
\* answer to its DELETE or PUT.
StatusCall(c) ==
  /\ op[c] \in {"remove", "rename", "removeByKey"}
  /\ net[c].st = "received"
  /\ net[c].req.method \in {"DELETE", "PUT"}

NoMatch(c) ==
  /\ op[c] = "removeByKey"
  /\ local[c].threads # << >>
  /\ \A i \in 1..Len(local[c].threads[1]) : local[c].threads[1][i].key # arg[c].key

C2_ReturnsFalse ==
  \A c \in CallIds : NoMatch(c) =>
    /\ pc[c] = "done"
    /\ result[c] = Bool(FALSE)
    /\ log[c] = <<HttpEv(ListRequest)>>

C2_LeavesThreads ==
  \A c \in CallIds :
    (/\ op'[c] = "removeByKey"
     /\ net'[c].req.method # "DELETE"
     /\ <<pc[c], net[c]>> # <<pc'[c], net'[c]>>) => threads' = threads

\* C2: when the list GET threads returned holds no thread of the key,
\* removeByKey returns false, the GET is the only request the call issues (no
\* DELETE), and no step of the call changes the daemon's threads.
C2_NoDeleteWhenMissing == []C2_ReturnsFalse /\ [][C2_LeavesThreads]_vars

C2_Witness ==
  \E c \in CallIds :
    NoMatch(c) /\ Len(local[c].threads[1]) > 0 /\ result[c] = Bool(FALSE)

\* A thread of the key of removeByKey call c is in the list it got from GET threads.
HasMatch(c) ==
  /\ local[c].threads # << >>
  /\ \E i \in 1..Len(local[c].threads[1]) : local[c].threads[1][i].key = arg[c].key

SchemaCalls(c) == EvCount(c, "schemas.add") + EvCount(c, "schemas.defaultByName")

\* C3 as stated: every operation issues exactly one HTTP request to the
\* threads resource per invocation (counted when the call has returned), and
\* only add calls the schema client.
C3_ExactlyOneRequest ==
  \A c \in CallIds : pc[c] = "done" =>
    /\ HttpCount(c) = 1
    /\ op[c] # "add" => SchemaCalls(c) = 0

\* C3 amended: a finished call has issued exactly one request, except that
\* removeByKey has issued a second one (the DELETE) when the list of its GET
\* held a thread of the key, and add none when its schema resolution failed;
\* only add calls the schema client, at most twice.
C3_RequestsPerCall ==
  \A c \in CallIds : Finished(c) =>
    CASE op[c] = "removeByKey" ->
           /\ SchemaCalls(c) = 0
           /\ HttpCount(c) = IF HasMatch(c) THEN 2 ELSE 1
           /\ Len(log[c]) = HttpCount(c)
           /\ log[c][1] = HttpEv(ListRequest)
           /\ HasMatch(c) => log[c][2].req.method = "DELETE"
      [] op[c] = "add" ->
           /\ SchemaCalls(c) <= 2
           /\ HttpCount(c) <= 1
           /\ HttpCount(c) = 1 => log[c][Len(log[c])].req.method = "POST"
           /\ HttpCount(c) = 0 =>
                /\ pc[c] = "failed"
                /\ log[c][Len(log[c])].ev \in {"schemas.add", "schemas.defaultByName"}
      [] OTHER ->
           /\ HttpCount(c) = 1
           /\ Len(log[c]) = 1

C3_Witness ==
  \E c \in CallIds :
    op[c] = "removeByKey" /\ pc[c] = "done" /\ HttpCount(c) = 2

ObjectAdd(c) == op[c] = "add" /\ arg[c].schema.t = "object"

\* The POST of call c, at position i of its log, carries the hash an earlier
\* schemas.add of the call returned.
PostCarriesHash(c, i) ==
  /\ log[c][i].req.method = "POST"
  /\ \E j \in 1..(i - 1) :
       /\ log[c][j].ev = "schemas.add.ret"
       /\ log[c][i].req.opts[1].schema = log[c][j].v

\* C4: an add with a schema object invokes schemas.add exactly once, that
\* call has returned before POST threads is issued, and the POST's schema
\* field is the hash it returned.
C4_SchemaAddedOnce ==
  \A c \in CallIds : ObjectAdd(c) =>
    /\ EvCount(c, "schemas.add") = 1
    /\ log[c][1] = CallEv("schemas.add", arg[c].schema.v)
    /\ EvCount(c, "schemas.defaultByName") = 0
    /\ \A i \in 1..Len(log[c]) : log[c][i].ev = "http" => PostCarriesHash(c, i)

C4_Witness ==
  \E c \in CallIds : ObjectAdd(c) /\ HttpCount(c) = 1 /\ pc[c] = "done"

StringAdd(c) == op[c] = "add" /\ arg[c].schema.t = "string" /\ arg[c].schema.v # ""

\* What defaultByName returned to call c: a sequence of one value once it has.
Reported(c) == SelectSeq(log[c], LAMBDA e : e.ev = "schemas.defaultByName.ret")

\* C5: an add with a non-empty string schema posts the hash of the default
\* schema it added when defaultByName knows the string, and the string itself
\* when it does not, in which case it adds no schema.
C5_StringSchema ==
  \A c \in CallIds : StringAdd(c) =>
    /\ Len(Reported(c)) <= 1
    /\ (Reported(c) # << >> /\ Reported(c)[1].v = Undefined) =>
         EvCount(c, "schemas.add") = 0
    /\ \A i \in 1..Len(log[c]) : log[c][i].ev = "http" =>
         /\ Reported(c) # << >>
         /\ IF Reported(c)[1].v # Undefined
            THEN /\ PostCarriesHash(c, i)
                 /\ EvCount(c, "schemas.add") = 1
                 /\ \E j \in 1..i : log[c][j] = CallEv("schemas.add", Reported(c)[1].v)
            ELSE /\ log[c][i].req.method = "POST"
                 /\ log[c][i].req.opts[1].schema = arg[c].schema.v

C5_Witness ==
  \E c, d \in CallIds :
    /\ StringAdd(c) /\ HttpCount(c) = 1 /\ Reported(c)[1].v # Undefined
    /\ StringAdd(d) /\ HttpCount(d) = 1 /\ Reported(d)[1].v = Undefined

\* The positions of the list call c parsed whose field f is v.
Matches(c, f, v) == {i \in 1..Len(local[c].threads[1]) : local[c].threads[1][i][f] = v}

\* C6: getByKey returns the item at the smallest position of the list whose
\* key is the argument, and undefined (no error) when no item has that key.
C6_FirstMatch ==
  \A c \in CallIds : (op[c] = "getByKey" /\ local[c].threads # << >>) =>
    LET items == local[c].threads[1]
        m == Matches(c, "key", arg[c].key)
    IN /\ pc[c] = "done"
       /\ result[c].k = "found"
       /\ IF m = {} THEN result[c].items = << >>
          ELSE \E i \in m : (\A j \in m : i <= j) /\ result[c].items = <<items[i]>>

C6_Witness ==
  \E c \in CallIds :
    /\ op[c] = "getByKey" /\ pc[c] = "done"
    /\ Cardinality(Matches(c, "key", arg[c].key)) >= 2

\* C7: getByName returns exactly the items of the list whose name is the
\* argument, each once and in the list's order, and an empty sequence (no
\* error) when none has that name.
C7_AllMatchesInOrder ==
  \A c \in CallIds : (op[c] = "getByName" /\ local[c].threads # << >>) =>
    LET items == local[c].threads[1]
        res == result[c].items
        m == Matches(c, "name", arg[c].name)
    IN /\ pc[c] = "done"
       /\ result[c].k = "threads"
       /\ Len(res) = Cardinality(m)
       /\ \E f \in [1..Len(res) -> m] :
            /\ \A a, b \in 1..Len(res) : a < b => f[a] < f[b]
            /\ \A a \in 1..Len(res) : res[a] = items[f[a]]

C7_Witness ==
  \E c \in CallIds :
    /\ op[c] = "getByName" /\ pc[c] = "done"
    /\ Cardinality(Matches(c, "name", arg[c].name)) >= 2
    /\ Cardinality(Matches(c, "name", arg[c].name)) < Len(local[c].threads[1])

\* C8: addOrUpdate has returned, without an error, as soon as it has started
\* its PUT, whatever becomes of the PUT; every other method has finished only
\* when the response to each request it sent has come back to it.
C8_FireAndForget ==
  \A c \in CallIds :
    /\ op[c] = "addOrUpdate" =>
         pc[c] = "done" /\ result[c] = Settled("void", FALSE, << >>)
    /\ (op[c] \notin {"", "addOrUpdate"} /\ Finished(c)) =>
         /\ net[c].st \in {"none", "received"}
         /\ net[c].st = "none" => HttpCount(c) = 0

C8_Witness ==
  \E c, d \in CallIds :
    /\ op[c] = "addOrUpdate" /\ pc[c] = "done" /\ net[c].st = "sent"
    /\ op[d] = "addOrUpdate" /\ pc[d] = "done" /\ net[d].st = "answered"
    /\ Rejects(net[d].status) /\ result[d].k = "void"

\* The daemon carries out the DELETE of removeByKey call c in this step.
DeletesFor(c) ==
  /\ op[c] = "removeByKey"
  /\ net[c].st = "sent" /\ net[c].req.method = "DELETE"
  /\ net'[c].st = "answered"
  /\ threads' # threads

\* C9: with calls running concurrently, removeByKey(k) never deletes a thread
\* whose key is not k at the time of the DELETE.
C9_DeletesOnlyItsKey ==
  [][\A c \in CallIds : DeletesFor(c) =>
       \A i \in 1..Len(threads) :
         threads[i].id = net[c].req.path[2] => threads[i].key = arg[c].key]_vars

====
